---- MODULE Spec2Model ----
(***************************************************************************)
(* MFO Offers API (main.py, schemas.py): the `offer` collection behind the  *)
(* root, list, create, seed and diagnostic endpoints.                       *)
(*                                                                         *)
(* Conventions of the model:                                               *)
(*  - a Python str that the code inspects (name, tags, q, the public id)   *)
(*    is a sequence of one-character strings; Cyrillic text of the seed    *)
(*    data is transliterated to ASCII; description and link are opaque;    *)
(*  - a float with one decimal (apr, rating, approval_rate, max_apr,       *)
(*    min_rating) is the integer number of tenths: 24.5 is 245;            *)
(*  - Optional[T] is a sequence of length 0 (None) or 1 (the value);       *)
(*  - a dict is a function whose domain is its set of keys.                *)
(***************************************************************************)
EXTENDS Integers, Sequences, FiniteSets, TLC

VARIABLES
    db,          \* the store handle of the process: None or the database
    offer,       \* the `offer` collection, in insertion order
    oidCounter,  \* the store's identifier generator
    pc,          \* per worker: "idle", or "insert" inside the seed loop
    count,       \* per worker: the local `count` of a seed_offers in its loop
    inserted,    \* per worker: the local `inserted` of seed_offers
    resp,        \* the response the last step sent
    createdLog,  \* history: the id and body of every successful create
    seedOids,    \* history: the identifiers inserted by seeding
    seedSum,     \* history: the sum of `inserted` over the seeds that reported ok
    partialK     \* history: the insert at which a seed last failed after >= 1 insert

vars == <<db, offer, oidCounter, pc, count, inserted, resp,
          createdLog, seedOids, seedSum, partialK>>

(* ---------------------------- bounds ---------------------------------- *)

\* successful create requests in one behaviour
MaxCreates == 2

\* request workers of the server runtime
Procs == {1, 2}

(* ---------------------------- values ---------------------------------- *)

None == << >>

Some(v) == <<v>>

EmptyDict == [x \in {} |-> 0]

SetKey(d, k, v) == [x \in (DOMAIN d) \cup {k} |-> IF x = k THEN v ELSE d[x]]

\* dict.setdefault(k, v), as the dict afterwards
SetDefault(d, k, v) == IF k \in DOMAIN d THEN d ELSE SetKey(d, k, v)

\* d[k].update(e), as the dict afterwards
UpdateAt(d, k, e) ==
    [d EXCEPT ![k] = [x \in (DOMAIN d[k]) \cup (DOMAIN e) |->
                         IF x \in DOMAIN e THEN e[x] ELSE d[k][x]]]

Digit(n) == CASE n = 0 -> "0" [] n = 1 -> "1" [] n = 2 -> "2" [] n = 3 -> "3"
              [] n = 4 -> "4" [] n = 5 -> "5" [] n = 6 -> "6" [] n = 7 -> "7"
              [] n = 8 -> "8" [] n = 9 -> "9"

RECURSIVE StrOid(_)
\* str(ObjectId): the textual form of a store identifier
StrOid(n) == IF n < 10 THEN <<Digit(n)>>
             ELSE Append(StrOid(n \div 10), Digit(n % 10))

Uppers == <<"A", "B", "C", "D", "E", "F", "G", "H", "I", "J", "K", "L", "M",
            "N", "O", "P", "Q", "R", "S", "T", "U", "V", "W", "X", "Y", "Z">>

Lowers == <<"a", "b", "c", "d", "e", "f", "g", "h", "i", "j", "k", "l", "m",
            "n", "o", "p", "q", "r", "s", "t", "u", "v", "w", "x", "y", "z">>

Fold(c) == IF \E i \in 1..26 : Uppers[i] = c
           THEN Lowers[CHOOSE i \in 1..26 : Uppers[i] = c]
           ELSE c

\* {"$regex": pat, "$options": "i"} on a string: unanchored search; the
\* patterns of the model are literals and the wildcard "."
RegexSearch(pat, text, ci) ==
    \E i \in 0..(Len(text) - Len(pat)) :
        \A j \in 1..Len(pat) :
            \/ pat[j] = "."
            \/ IF ci THEN Fold(pat[j]) = Fold(text[i + j])
                     ELSE pat[j] = text[i + j]

(* ---------------------------- schemas.py ------------------------------ *)

OfferFields == {"name", "apr", "min_amount", "max_amount", "term_min_days",
                "term_max_days", "approval_rate", "rating", "description",
                "link", "tags"}

RequiredFields == {"name", "apr", "min_amount", "max_amount", "term_min_days",
                   "term_max_days"}

OptionalFields == {"approval_rate", "rating", "description", "link"}

\* the Field(...) bounds of Offer, on a value that is present
Constraint_NoAmountBound(f, v) ==
    CASE f = "apr" -> v >= 0
      [] f = "min_amount" -> TRUE
      [] f = "max_amount" -> v >= 0
      [] f = "term_min_days" -> v >= 1
      [] f = "term_max_days" -> v >= 1
      [] f = "approval_rate" -> v >= 0 /\ v <= 1000
      [] f = "rating" -> v >= 0 /\ v <= 50
      [] OTHER -> TRUE

Constraint(f, v) ==
    CASE f = "apr" -> v >= 0
      [] f = "min_amount" -> v >= 0
      [] f = "max_amount" -> v >= 0
      [] f = "term_min_days" -> v >= 1
      [] f = "term_max_days" -> v >= 1
      [] f = "approval_rate" -> v >= 0 /\ v <= 1000
      [] f = "rating" -> v >= 0 /\ v <= 50
      [] OTHER -> TRUE

\* Offer(**body) succeeds on a request body (a dict of supplied fields)
ValidOffer(body) ==
    /\ RequiredFields \subseteq DOMAIN body
    /\ \A f \in (DOMAIN body) \cap OfferFields : Constraint(f, body[f])

\* the validated model, defaults filled in (what model_dump() gives)
OfferModel(body) ==
    [f \in OfferFields |->
        IF f \in DOMAIN body
        THEN (IF f \in OptionalFields THEN Some(body[f]) ELSE body[f])
        ELSE (IF f = "tags" THEN << >> ELSE None)]

\* OfferPublic(**d) succeeds on a stored document
ValidStored(d) ==
    \A f \in OfferFields :
        IF f \in OptionalFields
        THEN d[f] = None \/ Constraint(f, d[f][1])
        ELSE Constraint(f, d[f])

(* ---------------------------- seed data ------------------------------- *)

sample ==
  << [name |-> <<"B", "y", "s", "t", "r", "y", "e", " ", "D", "e", "n", "g", "i">>,
      apr |-> 299, min_amount |-> 1000, max_amount |-> 50000,
      term_min_days |-> 7, term_max_days |-> 30,
      approval_rate |-> Some(850), rating |-> Some(46),
      description |-> Some("instant approval"),
      link |-> Some("https://example.com/fast"),
      tags |-> << <<"b", "y", "s", "t", "r", "o">>,
                  <<"o", "n", "l", "a", "i", "n">>,
                  <<"n", "a", " ", "k", "a", "r", "t", "u">> >>],
     [name |-> <<"N", "a", "d", "e", "z", "h", "n", "y", "i", " ", "Z", "a", "i", "m">>,
      apr |-> 245, min_amount |-> 3000, max_amount |-> 70000,
      term_min_days |-> 10, term_max_days |-> 60,
      approval_rate |-> Some(780), rating |-> Some(44),
      description |-> Some("no paperwork"),
      link |-> Some("https://example.com/reliable"),
      tags |-> << <<"b", "e", "z", " ", "s", "p", "r", "a", "v", "o", "k">>,
                  <<"p", "r", "o", "z", "r", "a", "c", "h", "n", "o">> >>],
     [name |-> <<"Z", "a", "i", "m", "e", "r">>,
      apr |-> 199, min_amount |-> 5000, max_amount |-> 100000,
      term_min_days |-> 15, term_max_days |-> 90,
      approval_rate |-> Some(700), rating |-> Some(48),
      description |-> Some("best rates"),
      link |-> Some("https://example.com/zaimer"),
      tags |-> << <<"n", "i", "z", "k", "a", "y", "a", " ", "s", "t", "a", "v", "k", "a">>,
                  <<"l", "o", "y", "a", "l", "n", "o", "s", "t">> >>],
     [name |-> <<"R", "u", "b", "l", "G", "o">>,
      apr |-> 349, min_amount |-> 1000, max_amount |-> 30000,
      term_min_days |-> 7, term_max_days |-> 45,
      approval_rate |-> Some(900), rating |-> Some(42),
      description |-> Some("high approval"),
      link |-> Some("https://example.com/rublgo"),
      tags |-> << <<"0", "%">>,
                  <<"v", "y", "s", "o", "k", "o", "e", " ", "o", "d", "o", "b", "r", "e", "n", "i", "e">> >>] >>

(* ---------------------------- store gateway --------------------------- *)

\* a stored field as the store compares it: null or a value
BsonValue(d, k) == IF k \in OptionalFields THEN d[k] ELSE Some(d[k])

\* one field condition {op: operand, ...}; a null field matches no comparison
CondHolds(v, cond) ==
    \A op \in DOMAIN cond :
        CASE op = "$lte" -> v # None /\ v[1] <= cond[op]
          [] op = "$gte" -> v # None /\ v[1] >= cond[op]
          [] op = "$regex" ->
                /\ v # None
                /\ RegexSearch(cond[op], v[1],
                               "$options" \in DOMAIN cond /\ cond["$options"] = "i")
          [] op = "$options" -> TRUE
          [] op = "$in" ->
                /\ v # None
                /\ \E i \in DOMAIN cond[op] : \E j \in DOMAIN v[1] :
                       v[1][j] = cond[op][i]

RECURSIVE Matches(_, _)
\* a filter document: implicit AND over its keys, "$or" over its clauses
Matches(d, filter_dict) ==
    \A k \in DOMAIN filter_dict :
        IF k = "$or"
        THEN \E i \in DOMAIN filter_dict[k] : Matches(d, filter_dict[k][i])
        ELSE CondHolds(BsonValue(d, k), filter_dict[k])

\* get_documents(collection, filter_dict): the matching documents, in
\* the store's natural (insertion) order
GetDocuments(coll, filter_dict) ==
    SelectSeq(coll, LAMBDA d : Matches(d, filter_dict))

\* create_document(collection, data): the collection after the insert
CreateDocument(coll, oid, data) == Append(coll, ("_id" :> oid) @@ data)

\* db[collection].count_documents({})
CountDocuments(coll) == Len(coll)

\* db.list_collection_names(): a collection exists once it holds a document
ListCollectionNames(coll) == IF Len(coll) > 0 THEN <<"offer">> ELSE << >>

\* whether a store call may raise: always on a missing handle
StoreFails(handle) == IF handle = None THEN {TRUE} ELSE BOOLEAN

(* ---------------------------- filter builder -------------------------- *)

AprClause_Gte(f, max_apr) ==
    IF max_apr # None THEN SetKey(f, "apr", ("$gte" :> max_apr[1])) ELSE f

AprClause(f, max_apr) ==
    IF max_apr # None THEN SetKey(f, "apr", ("$lte" :> max_apr[1])) ELSE f

MinAmountClause_SameField(f, min_amount) ==
    IF min_amount # None
    THEN UpdateAt(SetDefault(f, "min_amount", EmptyDict), "min_amount",
                  ("$gte" :> min_amount[1]))
    ELSE f

MinAmountClause(f, min_amount) ==
    IF min_amount # None
    THEN UpdateAt(SetDefault(f, "max_amount", EmptyDict), "max_amount",
                  ("$gte" :> min_amount[1]))
    ELSE f

MaxAmountClause(f, max_amount) ==
    IF max_amount # None
    THEN UpdateAt(SetDefault(f, "min_amount", EmptyDict), "min_amount",
                  ("$lte" :> max_amount[1]))
    ELSE f

RatingClause(f, min_rating) ==
    IF min_rating # None THEN SetKey(f, "rating", ("$gte" :> min_rating[1])) ELSE f

SearchClause_Replace(f, q) ==
    IF q # None /\ q[1] # << >>
    THEN ("$or" :> << ("name" :> (("$regex" :> q[1]) @@ ("$options" :> "i"))),
                      ("tags" :> ("$in" :> <<q[1]>>)) >>)
    ELSE f

\* `if q:` skips None and the empty string
SearchClause(f, q) ==
    IF q # None /\ q[1] # << >>
    THEN SetKey(f, "$or",
                << ("name" :> (("$regex" :> q[1]) @@ ("$options" :> "i"))),
                   ("tags" :> ("$in" :> <<q[1]>>)) >>)
    ELSE f

\* filter_dict of list_offers
BuildFilter(q, max_apr, min_amount, max_amount, min_rating) ==
    SearchClause(
        RatingClause(
            MaxAmountClause(
                MinAmountClause(
                    AprClause(EmptyDict, max_apr),
                    min_amount),
                max_amount),
            min_rating),
        q)

\* the Query(...) bounds of list_offers
ValidQuery(params) ==
    /\ params.max_apr = None \/ params.max_apr[1] >= 0
    /\ params.min_amount = None \/ params.min_amount[1] >= 0
    /\ params.max_amount = None \/ params.max_amount[1] >= 0
    /\ params.min_rating = None
          \/ (params.min_rating[1] >= 0 /\ params.min_rating[1] <= 50)

\* str(None) in place of the identifier
PublicDoc_NoOid(d) ==
    ("id" :> <<"N", "o", "n", "e">>) @@ [f \in OfferFields |-> d[f]]

\* d["id"] = str(d.pop("_id")); OfferPublic(**d)
PublicDoc(d) == ("id" :> StrOid(d["_id"])) @@ [f \in OfferFields |-> d[f]]

(* ---------------------------- request inputs -------------------------- *)

QValues == {None, Some(<< >>), Some(<<"z", "a", "i", "m">>), Some(<<"0", "%">>),
            Some(<<"B", ".", "s">>)}

MaxAprValues == {None, Some(250)}

MinAmountValues == {None, Some(60000)}

MaxAmountValues == {None, Some(2000)}

MinRatingValues == {None, Some(43)}

NoParams == [q |-> None, max_apr |-> None, min_amount |-> None,
             max_amount |-> None, min_rating |-> None]

\* every subset of the range parameters, alone and with a search word; the
\* other values of q alone and with one range parameter
ValidQueries ==
    [q : {None, Some(<<"z", "a", "i", "m">>)}, max_apr : MaxAprValues,
     min_amount : MinAmountValues, max_amount : MaxAmountValues,
     min_rating : MinRatingValues]
    \cup [q : QValues, max_apr : MaxAprValues, min_amount : {None},
          max_amount : {None}, min_rating : {None}]

InvalidQueries ==
    {[NoParams EXCEPT !.max_apr = Some(-1)], [NoParams EXCEPT !.min_amount = Some(-1)],
     [NoParams EXCEPT !.max_amount = Some(-1)], [NoParams EXCEPT !.min_rating = Some(51)],
     [NoParams EXCEPT !.min_rating = Some(-1), !.max_apr = Some(250)]}

Queries == ValidQueries \cup InvalidQueries

FullBody ==
    [name |-> <<"M", "i", "g", "C", "r", "e", "d", "i", "t">>,
     apr |-> 250, min_amount |-> 2000, max_amount |-> 60000,
     term_min_days |-> 5, term_max_days |-> 20,
     approval_rate |-> 650, rating |-> 43,
     description |-> "short term", link |-> "https://example.com/mig",
     tags |-> << <<"z", "a", "i", "m">> >>]

MinimalBody ==
    [name |-> <<"Z", "a", "i", "m", " ", "E", "x", "p", "r", "e", "s", "s">>,
     apr |-> 0, min_amount |-> 0, max_amount |-> 0,
     term_min_days |-> 1, term_max_days |-> 1]

Without(body, f) == [x \in (DOMAIN body) \ {f} |-> body[x]]

ValidBodies == {FullBody, MinimalBody}

InvalidBodies ==
    {[FullBody EXCEPT !.min_amount = -1], [FullBody EXCEPT !.apr = -1],
     [FullBody EXCEPT !.term_min_days = 0], [FullBody EXCEPT !.rating = 51],
     [MinimalBody EXCEPT !.term_max_days = 0], Without(FullBody, "name")}

Bodies == ValidBodies \cup InvalidBodies

(* ---------------------------- handlers -------------------------------- *)

NotConfigured == "Database not configured"

\* resp is the response the last step sent; Pending when it sent none
Pending == [kind |-> "none", status |-> 0]

DbIsNone_Never(handle) == FALSE

\* `if db is None`
DbIsNone(handle) == handle = None

AlreadySeeded_Full(n) == n >= Len(sample)

\* `if count > 0`
AlreadySeeded(n) == n > 0

\* the collection once insert k of a seed has raised, `before` being the
\* collection as that insert found it
OnSeedFailure_Rollback(before, k) == SubSeq(before, 1, Len(before) - (k - 1))

OnSeedFailure(before, k) == before

Ghosts == <<createdLog, seedOids, seedSum, partialK>>

\* GET /
ReadRoot ==
    /\ resp' = [kind |-> "root", status |-> 200,
                message |-> "MFO Offers API running", pre |-> offer, calls |-> 0]
    /\ UNCHANGED <<db, offer, oidCounter, pc, count, inserted, Ghosts>>

\* the response of GET /api/offers to valid parameters
ListResponse(params, fail) ==
    LET base == [kind |-> "list", valid |-> TRUE, params |-> params, pre |-> offer]
        docs == GetDocuments(offer,
                    BuildFilter(params.q, params.max_apr, params.min_amount,
                                params.max_amount, params.min_rating))
    IN  IF DbIsNone(db)
        THEN base @@ [status |-> 500, detail |-> NotConfigured, calls |-> 0]
        ELSE IF fail \/ \E i \in DOMAIN docs : ~ValidStored(docs[i])
        THEN base @@ [status |-> 500, detail |-> "Internal Server Error", calls |-> 1]
        ELSE base @@ [status |-> 200, calls |-> 1,
                      body |-> [i \in DOMAIN docs |-> PublicDoc(docs[i])]]

\* the documents read are taken out of the store
ListOffers_Consume ==
    \E params \in Queries :
            /\ (ValidQuery(params) /\ ~DbIsNone(db)) = TRUE
            /\ resp' = ListResponse(params, FALSE)
            /\ offer' = SelectSeq(offer, LAMBDA d :
                            ~Matches(d, BuildFilter(params.q, params.max_apr,
                                         params.min_amount, params.max_amount,
                                         params.min_rating)))
            /\ UNCHANGED <<db, oidCounter, pc, count, inserted, Ghosts>>

\* GET /api/offers
ListOffers ==
    \E params \in Queries :
            /\ IF ~ValidQuery(params)
               THEN resp' = [kind |-> "list", valid |-> FALSE, status |-> 422,
                             pre |-> offer, calls |-> 0]
               ELSE \E fail \in StoreFails(db) : resp' = ListResponse(params, fail)
            /\ UNCHANGED <<db, offer, oidCounter, pc, count, inserted, Ghosts>>

\* POST /api/offers
CreateOffer ==
    \E payload \in Bodies :
        IF ~ValidOffer(payload)
        THEN /\ resp' = [kind |-> "create", valid |-> FALSE, status |-> 422,
                         payload |-> payload, pre |-> offer, calls |-> 0]
             /\ UNCHANGED <<db, offer, oidCounter, pc, count, inserted, Ghosts>>
        ELSE IF DbIsNone(db)
        THEN /\ resp' = [kind |-> "create", valid |-> TRUE, status |-> 500,
                         detail |-> NotConfigured,
                         payload |-> payload, pre |-> offer, calls |-> 0]
             /\ UNCHANGED <<db, offer, oidCounter, pc, count, inserted, Ghosts>>
        ELSE \E fail \in StoreFails(db) :
             IF fail
             THEN /\ resp' = [kind |-> "create", valid |-> TRUE, status |-> 500,
                              detail |-> "Internal Server Error",
                              payload |-> payload, pre |-> offer, calls |-> 1]
                  /\ UNCHANGED <<db, offer, oidCounter, pc, count, inserted, Ghosts>>
             ELSE /\ Len(createdLog) < MaxCreates
                  /\ offer' = CreateDocument(offer, oidCounter, OfferModel(payload))
                  /\ oidCounter' = oidCounter + 1
                  /\ resp' = [kind |-> "create", valid |-> TRUE, status |-> 201,
                              id |-> StrOid(oidCounter),
                              payload |-> payload, pre |-> offer, calls |-> 1]
                  /\ createdLog' = Append(createdLog,
                                          [id |-> StrOid(oidCounter), payload |-> payload])
                  /\ UNCHANGED <<db, pc, count, inserted, seedOids, seedSum, partialK>>

\* POST /api/offers/seed, up to the return or the start of the insert loop
SeedOffers(p) ==
    /\ pc[p] = "idle"
    /\ IF DbIsNone(db)
       THEN /\ resp' = [kind |-> "seed", status |-> 500, detail |-> NotConfigured,
                        pre |-> offer, calls |-> 0]
            /\ UNCHANGED <<pc, count, inserted>>
       ELSE \E fail \in StoreFails(db) :
            IF fail
            THEN /\ resp' = [kind |-> "seed", status |-> 500, detail |-> "store error",
                             failedAt |-> 0, pre |-> offer, calls |-> 1]
                 /\ UNCHANGED <<pc, count, inserted>>
            ELSE LET n == CountDocuments(offer)
                 IN  IF AlreadySeeded(n)
                     THEN /\ resp' = [kind |-> "seed", status |-> 200, inserted |-> 0,
                                      message |-> "Offers already exist",
                                      count |-> n, pre |-> offer, calls |-> 1]
                          /\ UNCHANGED <<pc, count, inserted>>
                     ELSE /\ pc' = [pc EXCEPT ![p] = "insert"]
                          /\ count' = [count EXCEPT ![p] = n]
                          /\ inserted' = [inserted EXCEPT ![p] = 0]
                          /\ resp' = Pending
    /\ UNCHANGED <<db, offer, oidCounter, Ghosts>>

\* one turn of `for s in sample`: create_document, inserted += 1, or the
\* except branch
SeedInsert(p) ==
    /\ pc[p] = "insert"
    /\ inserted[p] < Len(sample)
    /\ \E fail \in StoreFails(db) :
        IF fail
        THEN /\ offer' = OnSeedFailure(offer, inserted[p] + 1)
             /\ resp' = [kind |-> "seed", status |-> 500, detail |-> "store error",
                         failedAt |-> inserted[p] + 1, count |-> count[p],
                         calls |-> inserted[p] + 2]
             /\ pc' = [pc EXCEPT ![p] = "idle"]
             /\ partialK' = IF inserted[p] > 0 THEN inserted[p] + 1 ELSE partialK
             /\ UNCHANGED <<db, oidCounter, count, inserted, createdLog,
                            seedOids, seedSum>>
        ELSE /\ offer' = CreateDocument(offer, oidCounter, sample[inserted[p] + 1])
             /\ oidCounter' = oidCounter + 1
             /\ inserted' = [inserted EXCEPT ![p] = inserted[p] + 1]
             /\ seedOids' = seedOids \cup {oidCounter}
             /\ resp' = Pending
             /\ UNCHANGED <<db, pc, count, createdLog, seedSum, partialK>>

\* `return {"status": "ok", "inserted": inserted}`
SeedReturn(p) ==
    /\ pc[p] = "insert"
    /\ inserted[p] = Len(sample)
    /\ resp' = [kind |-> "seed", status |-> 200, inserted |-> inserted[p],
                count |-> count[p], calls |-> inserted[p] + 1]
    /\ pc' = [pc EXCEPT ![p] = "idle"]
    /\ seedSum' = seedSum + inserted[p]
    /\ UNCHANGED <<db, offer, oidCounter, count, inserted, createdLog, seedOids,
                   partialK>>

\* GET /test
TestDatabase ==
    /\ \E fail \in StoreFails(db), environ \in SUBSET {"DATABASE_URL", "DATABASE_NAME"} :
        LET names == ListCollectionNames(offer)
        IN  resp' =
              [kind |-> "test", status |-> 200, backend |-> "Running", pre |-> offer,
               database |-> IF db = None THEN "Available but not initialized"
                            ELSE IF fail THEN "Connected but Error"
                            ELSE "Connected & Working",
               connection_status |-> IF db = None THEN "Not Connected" ELSE "Connected",
               collections |-> IF db = None \/ fail THEN << >>
                               ELSE SubSeq(names, 1, IF Len(names) < 10 THEN Len(names) ELSE 10),
               database_url |-> IF "DATABASE_URL" \in environ THEN "Set" ELSE "Not Set",
               database_name |-> IF "DATABASE_NAME" \in environ THEN "Set" ELSE "Not Set",
               calls |-> IF db = None THEN 0 ELSE 1]
    /\ UNCHANGED <<db, offer, oidCounter, pc, count, inserted, Ghosts>>

(* ---------------------------- specifications -------------------------- *)

Init ==
    /\ db \in {None, Some("mfo")}
    /\ offer = << >>
    /\ oidCounter = 1
    /\ pc = [p \in Procs |-> "idle"]
    /\ count = [p \in Procs |-> 0]
    /\ inserted = [p \in Procs |-> 0]
    /\ resp = Pending
    /\ createdLog = << >>
    /\ seedOids = {}
    /\ seedSum = 0
    /\ partialK = 0

\* no request is in flight
Quiet == \A p \in Procs : pc[p] = "idle"

\* requests served one after the other
Next ==
    \/ Quiet /\ ReadRoot
    \/ Quiet /\ ListOffers
    \/ Quiet /\ CreateOffer
    \/ Quiet /\ \E p \in Procs : SeedOffers(p)
    \/ Quiet /\ TestDatabase
    \/ \E p \in Procs : SeedInsert(p)
    \/ \E p \in Procs : SeedReturn(p)

Spec == Init /\ [][Next]_vars

\* Requests served in parallel by the server runtime.  The root, list and
\* diagnostic handlers write nothing but resp, so they change no store state
\* a concurrent seed or create can read; the parallel relation leaves them
\* to Next and interleaves the requests that write.
NextParallel ==
    \/ CreateOffer
    \/ \E p \in Procs : SeedOffers(p)
    \/ \E p \in Procs : SeedInsert(p)
    \/ \E p \in Procs : SeedReturn(p)

SpecParallel == Init /\ [][NextParallel]_vars

(* ---------------------------- properties ------------------------------ *)

\* the Offer fields of a stored document
Fields(d) == [f \in OfferFields |-> d[f]]

\* the collection holds exactly the first n sample offers, in order
HoldsSamples(coll, n) ==
    /\ Len(coll) = n
    /\ \A i \in 1..n : Fields(coll[i]) = sample[i]

ListedOk == resp.kind = "list" /\ resp.status = 200

SeedOk == resp.kind = "seed" /\ resp.status = 200

\* the stored document d is in the body of the list response
Returned(d) == \E i \in DOMAIN resp.body : resp.body[i].id = StrOid(d["_id"])

\* the body of the list response is a duplicate-free selection of the store
BodyFromStore ==
    /\ \A i \in DOMAIN resp.body :
          \E j \in DOMAIN offer : resp.body[i] = ("id" :> StrOid(offer[j]["_id"])) @@ Fields(offer[j])
    /\ \A i, j \in DOMAIN resp.body : resp.body[i].id = resp.body[j].id => i = j

\* C1: sequential seeding is idempotent: a seed that reports ok after finding
\* the collection empty has inserted exactly the 4 sample offers and reports
\* inserted = 4; a seed that found at least one record reports inserted = 0
\* with "Offers already exist" and left the collection as it found it.
C1_SeedIdempotent ==
    SeedOk =>
        IF resp.count = 0
        THEN /\ resp.inserted = 4
             /\ "message" \notin DOMAIN resp
             /\ HoldsSamples(offer, 4)
        ELSE /\ resp.inserted = 0
             /\ resp.message = "Offers already exist"
             /\ offer = resp.pre
             /\ Len(offer) >= 1

\* a second seed, after one that inserted the 4 offers, reports nothing inserted
C1_Witness ==
    /\ SeedOk
    /\ resp.inserted = 0
    /\ seedSum = 4
    /\ HoldsSamples(offer, 4)

C2_Query == [NoParams EXCEPT !.max_apr = Some(250), !.min_rating = Some(43)]

C2_Case ==
    /\ ListedOk
    /\ resp.params = C2_Query
    /\ HoldsSamples(offer, 4)

\* C2 as stated: max_apr = 25 and min_rating = 4.3 against the 4 seed offers
\* returns exactly one record, the second sample.
C2_OnlyNadezhnyi ==
    C2_Case =>
        /\ Len(resp.body) = 1
        /\ resp.body[1].name = sample[2].name

\* C2 as amended: max_apr = 25 and min_rating = 4.3 against the 4 seed
\* offers returns exactly two records, the second sample (apr 24.5, rating
\* 4.4) and the third (apr 19.9, rating 4.8), and no other seed offer.
C2_NadezhnyiAndZaimer ==
    C2_Case =>
        /\ Len(resp.body) = 2
        /\ {resp.body[i].name : i \in DOMAIN resp.body}
              = {sample[2].name, sample[3].name}

C2_Witness == C2_Case /\ Len(resp.body) = 2

\* C3: with only the amount parameters supplied, a stored record is returned
\* iff its max_amount >= min_amount (when given) and its min_amount <=
\* max_amount (when given); with both supplied, both constraints apply.
C3_AmountFilters ==
    (/\ ListedOk
     /\ resp.params.q = None /\ resp.params.max_apr = None
     /\ resp.params.min_rating = None)
    => /\ BodyFromStore
       /\ \A i \in DOMAIN offer :
            Returned(offer[i]) <=>
                /\ resp.params.min_amount = None
                      \/ offer[i].max_amount >= resp.params.min_amount[1]
                /\ resp.params.max_amount = None
                      \/ offer[i].min_amount <= resp.params.max_amount[1]

\* both amount parameters supplied; some records pass and some do not
C3_Witness ==
    /\ ListedOk
    /\ resp.params.q = None /\ resp.params.max_apr = None
    /\ resp.params.min_rating = None
    /\ resp.params.min_amount # None /\ resp.params.max_amount # None
    /\ Len(resp.body) > 0
    /\ Len(resp.body) < Len(offer)

\* a record satisfies every supplied parameter
Satisfies(d, params) ==
    /\ params.max_apr = None \/ d.apr <= params.max_apr[1]
    /\ params.min_amount = None \/ d.max_amount >= params.min_amount[1]
    /\ params.max_amount = None \/ d.min_amount <= params.max_amount[1]
    /\ params.min_rating = None
          \/ (d.rating # None /\ d.rating[1] >= params.min_rating[1])
    /\ \/ params.q = None
       \/ params.q[1] = << >>
       \/ RegexSearch(params.q[1], d.name, TRUE)
       \/ \E t \in DOMAIN d.tags : d.tags[t] = params.q[1]

\* C4: the list filter is the conjunction of exactly the supplied
\* parameters: a stored record is returned iff it satisfies every supplied
\* range constraint and, for a non-empty q, its name matches q or q is one of
\* its tags; with no parameter, or only an empty q, every record is returned.
C4_FilterIsConjunction ==
    ListedOk =>
        /\ BodyFromStore
        /\ \A i \in DOMAIN offer : Returned(offer[i]) <=> Satisfies(offer[i], resp.params)
        /\ resp.params \in {NoParams, [NoParams EXCEPT !.q = Some(<< >>)]}
              => Len(resp.body) = Len(offer)

\* a search word together with range parameters; some records pass, some do not
C4_Witness ==
    /\ ListedOk
    /\ resp.params.q # None /\ resp.params.q[1] # << >>
    /\ resp.params.max_apr # None /\ resp.params.min_amount # None
    /\ Len(resp.body) > 0
    /\ Len(resp.body) < Len(offer)

\* a public record carries the fields of a request body, defaults filled in
EqualsBody(r, body) ==
    \A f \in OfferFields :
        IF f \in DOMAIN body
        THEN r[f] = (IF f \in OptionalFields THEN Some(body[f]) ELSE body[f])
        ELSE r[f] = (IF f = "tags" THEN << >> ELSE None)

\* C5: after a successful create of P, a list with no filters returns a record
\* with P's fields and the id the create returned; the ids returned by
\* distinct creates are distinct.
C5_CreatedIsListed ==
    /\ (ListedOk /\ resp.params = NoParams) =>
          \A c \in DOMAIN createdLog :
              \E i \in DOMAIN resp.body :
                  /\ resp.body[i].id = createdLog[c].id
                  /\ EqualsBody(resp.body[i], createdLog[c].payload)
    /\ (resp.kind = "create" /\ resp.status = 201) =>
          /\ createdLog[Len(createdLog)] = [id |-> resp.id, payload |-> resp.payload]
          /\ offer = Append(resp.pre, offer[Len(offer)])
          /\ StrOid(offer[Len(offer)]["_id"]) = resp.id
    /\ \A c1, c2 \in DOMAIN createdLog :
          createdLog[c1].id = createdLog[c2].id => c1 = c2

\* an unfiltered list after two creates, the same body twice, among seed offers
C5_Witness ==
    /\ ListedOk /\ resp.params = NoParams
    /\ Len(createdLog) = 2
    /\ createdLog[1].payload = createdLog[2].payload
    /\ Len(offer) > 2

\* a request body breaks a Field(...) bound of Offer, or lacks a required field
BreaksOffer(body) ==
    \/ ~(RequiredFields \subseteq DOMAIN body)
    \/ body.apr < 0
    \/ body.min_amount < 0
    \/ body.max_amount < 0
    \/ body.term_min_days < 1
    \/ body.term_max_days < 1
    \/ ("approval_rate" \in DOMAIN body /\ (body.approval_rate < 0 \/ body.approval_rate > 1000))
    \/ ("rating" \in DOMAIN body /\ (body.rating < 0 \/ body.rating > 50))

\* C6: a create whose body violates an Offer constraint is rejected with a
\* client error, without a store call, and the collection is unchanged.
C6_InvalidCreateRejected ==
    (resp.kind = "create" /\ BreaksOffer(resp.payload)) =>
        /\ resp.status = 422
        /\ resp.calls = 0
        /\ offer = resp.pre

\* a negative min_amount is rejected on a collection that holds records
C6_Witness ==
    /\ resp.kind = "create"
    /\ resp.status = 422
    /\ "name" \in DOMAIN resp.payload
    /\ resp.payload.min_amount < 0
    /\ Len(offer) > 0

\* C7: a seed on an empty collection that fails at insert k ends as a 500
\* with the k - 1 earlier inserts left in place; after a failure at k > 1
\* every later seed reports inserted = 0 and the seeded records stay the
\* k - 1 < 4; after a failure at k = 1 the collection is empty, and a seed
\* that then finds it empty and reports ok has inserted all 4.
C7_PartialSeed ==
    /\ (resp.kind = "seed" /\ resp.status = 500 /\ resp.detail # NotConfigured
          /\ resp.failedAt >= 1)
          => /\ resp.count = 0
             /\ HoldsSamples(offer, resp.failedAt - 1)
    /\ partialK > 1 =>
          /\ Cardinality(seedOids) = partialK - 1
          /\ Cardinality(seedOids) < 4
          /\ \A p \in Procs : pc[p] = "idle"
          /\ SeedOk => resp.inserted = 0
    /\ (SeedOk /\ resp.count = 0) => (resp.inserted = 4 /\ Len(offer) = 4)

\* a seed after a partial failure reports nothing inserted
C7_Witness ==
    /\ partialK > 1
    /\ SeedOk
    /\ resp.inserted = 0
    /\ Len(offer) = partialK - 1

\* C8 as stated: without a store handle every list, create and seed ends with
\* 500 "Database not configured" and no store call; root and diagnostics
\* answer successfully.
C8_AlwaysNotConfigured ==
    db = None =>
        /\ resp.kind \in {"list", "create", "seed"} =>
              /\ resp.status = 500
              /\ resp.detail = NotConfigured
              /\ resp.calls = 0
              /\ offer = resp.pre
        /\ resp.kind \in {"root", "test"} => resp.status = 200

\* C8 as amended: without a store handle every list, create and seed request
\* that passes request validation ends with 500 "Database not configured";
\* a list or create that fails validation is rejected with the client error
\* 422 instead; in every case no store call is made and the store is
\* unchanged; root and diagnostics answer successfully.
C8_NotConfiguredOnceValid ==
    db = None =>
        /\ resp.kind \in {"list", "create"} =>
              /\ IF resp.valid
                 THEN resp.status = 500 /\ resp.detail = NotConfigured
                 ELSE resp.status = 422
              /\ resp.calls = 0
              /\ offer = resp.pre
        /\ resp.kind = "seed" =>
              /\ resp.status = 500
              /\ resp.detail = NotConfigured
              /\ resp.calls = 0
              /\ offer = resp.pre
        /\ resp.kind \in {"root", "test"} => resp.status = 200 /\ resp.calls = 0
        /\ offer = << >>

C8_Witness ==
    /\ db = None
    /\ resp.kind = "create"
    /\ resp.status = 500
    /\ resp.detail = NotConfigured

\* C9: under concurrent seed requests the collection never holds more than
\* the 4 seed records and the inserted counts reported never sum to more
\* than 4.
C9_SeededOnce ==
    /\ Cardinality(seedOids) <= 4
    /\ seedSum <= 4

ReadKinds == {"root", "list", "test"}

\* C10: the collection only grows: every stored record stays stored, with
\* its fields and identifier, at its place; a root, list or diagnostic
\* request leaves the collection exactly as it was.
C10_OnlyGrows ==
    [][/\ Len(offer') >= Len(offer)
       /\ \A i \in DOMAIN offer : offer'[i] = offer[i]
       /\ resp'.kind \in ReadKinds => offer' = offer]_vars

\* a list answered from a collection that holds seeded and created records
C10_Witness ==
    /\ ListedOk
    /\ Len(resp.body) > 0
    /\ Len(createdLog) > 0
    /\ Cardinality(seedOids) = 4

====
